---- MODULE Spec2Model ----
(***************************************************************************)
(* GMX Risk Guard: the position risk calculators of gmx-calculations       *)
(* (validatePosition, calculateLiquidationPrice, calculatePnL,             *)
(* calculateTotalFees, calculateRiskReward, calculateSafeLeverage), the     *)
(* static tables they read, and the five calculator components of the      *)
(* Dashboard with their recalculation effects.                             *)
(*                                                                         *)
(* A JavaScript number is modelled as an exact fraction n/d in lowest      *)
(* terms, extended with the three non-finite values the arithmetic can     *)
(* produce: +Infinity is 1/0, -Infinity is -1/0 and NaN is 0/0.  The       *)
(* rounding of IEEE-754 doubles and the sign of zero are not modelled:     *)
(* every finite result is the exact rational value of the expression.      *)
(***************************************************************************)
EXTENDS Integers, Sequences, FiniteSets, TLC

\* The library seen by a caller: the PositionParams it holds, the last call
\* it made and what the call gave back.
VARIABLES params, call, result

\* The Dashboard's calculatorState, the calculator component looked at, that
\* component's local state (stopLoss and takeProfit of RiskRewardRatio,
\* riskTolerance of SafeLeverageRecommendation), what its effect stored
\* (calculation, errors) and the library calls of the effect's last run.
VARIABLES state, component, stopLossState, takeProfitState, riskToleranceState,
          calculationState, errorsState, run

\* The timers of utils: the clock in ms, the event loop's pending timers, the
\* closure variables of one debounced function (timeout, made with wait) and
\* of one throttled function (inThrottle, made with limit), and the calls of
\* the two returned functions and the invocations of func, in order.
VARIABLES now, timers, timeout, inThrottle, wait, limit, trace

libVars == <<params, call, result>>

timerVars == <<now, timers, timeout, inThrottle, wait, limit, trace>>

uiVars == <<state, component, stopLossState, takeProfitState,
            riskToleranceState, calculationState, errorsState, run>>

vars == <<params, call, result, state, component, stopLossState,
          takeProfitState, riskToleranceState, calculationState, errorsState, run,
          now, timers, timeout, inThrottle, wait, limit, trace>>

----------------------------------------------------------------------------
(* Numbers *)

RECURSIVE GCD(_, _)
GCD(a, b) == IF b = 0 THEN a ELSE GCD(b, a % b)

AbsInt(n) == IF n < 0 THEN -n ELSE n

SignInt(n) == IF n < 0 THEN -1 ELSE IF n > 0 THEN 1 ELSE 0

\* n/d with d >= 0, in lowest terms; d = 0 gives an infinity or NaN.
Norm(n, d) ==
    IF d = 0
    THEN [n |-> SignInt(n), d |-> 0]
    ELSE LET g == GCD(AbsInt(n), d)
         IN  [n |-> SignInt(n) * (AbsInt(n) \div g), d |-> d \div g]

R(n, d) == Norm(n, d)

NaN == [n |-> 0, d |-> 0]

Infinity == [n |-> 1, d |-> 0]

Zero == R(0, 1)

One == R(1, 1)

Hundred == R(100, 1)

IsNaN(a) == a.n = 0 /\ a.d = 0

Neg(a) == [n |-> -a.n, d |-> a.d]

Abs(a) == [n |-> AbsInt(a.n), d |-> a.d]

\* Common factors are divided out before multiplying, to keep the integers small.
Add(a, b) ==
    IF a.d = 0 /\ b.d = 0
    THEN (IF a.n = b.n THEN a ELSE NaN)
    ELSE IF a.d = 0 THEN a
    ELSE IF b.d = 0 THEN b
    ELSE LET g == GCD(a.d, b.d)
         IN  Norm(a.n * (b.d \div g) + b.n * (a.d \div g), (a.d \div g) * b.d)

Sub(a, b) == Add(a, Neg(b))

Mul(a, b) ==
    IF a.d = 0 \/ b.d = 0 \/ a.n = 0 \/ b.n = 0
    THEN Norm(SignInt(a.n) * SignInt(b.n), SignInt(a.d) * SignInt(b.d))
    ELSE LET g1 == GCD(AbsInt(a.n), b.d)
             g2 == GCD(AbsInt(b.n), a.d)
         IN  Norm((a.n \div g1) * (b.n \div g2), (a.d \div g2) * (b.d \div g1))

Recip(b) ==
    IF b.d = 0
    THEN (IF b.n = 0 THEN NaN ELSE Zero)
    ELSE IF b.n = 0 THEN Infinity
    ELSE [n |-> SignInt(b.n) * b.d, d |-> AbsInt(b.n)]

Div(a, b) == Mul(a, Recip(b))

Lt(a, b) ==
    /\ ~IsNaN(a)
    /\ ~IsNaN(b)
    /\ IF a.d = 0 /\ b.d = 0 THEN a.n < b.n
       ELSE IF a.d = 0 THEN a.n < 0
       ELSE IF b.d = 0 THEN b.n > 0
       ELSE LET g == GCD(a.d, b.d)
            IN  a.n * (b.d \div g) < b.n * (a.d \div g)

Eq(a, b) == ~IsNaN(a) /\ ~IsNaN(b) /\ a = b

Le(a, b) == Lt(a, b) \/ Eq(a, b)

Gt(a, b) == Lt(b, a)

Ge(a, b) == Le(b, a)

MathMax(a, b) == IF IsNaN(a) \/ IsNaN(b) THEN NaN ELSE IF Lt(a, b) THEN b ELSE a

MathMin(a, b) == IF IsNaN(a) \/ IsNaN(b) THEN NaN ELSE IF Lt(b, a) THEN b ELSE a

\* Math.floor in place of Math.round.
MathRound_floor(a) == IF a.d = 0 THEN a ELSE R(a.n \div a.d, 1)

\* Math.round: the nearest integer, a half going up.
MathRound(a) == IF a.d = 0 THEN a ELSE R((2 * a.n + a.d) \div (2 * a.d), 1)

----------------------------------------------------------------------------
(* constants.ts *)

SUPPORTED_ASSETS ==
    << [symbol |-> "AVAX", name |-> "Avalanche", decimals |-> 18,
        priceDecimals |-> 8, minLeverage |-> R(1, 1), maxLeverage |-> R(50, 1),
        defaultLeverage |-> R(5, 1)],
       [symbol |-> "BTC", name |-> "Bitcoin", decimals |-> 8,
        priceDecimals |-> 8, minLeverage |-> R(1, 1), maxLeverage |-> R(50, 1),
        defaultLeverage |-> R(3, 1)],
       [symbol |-> "ETH", name |-> "Ethereum", decimals |-> 18,
        priceDecimals |-> 8, minLeverage |-> R(1, 1), maxLeverage |-> R(50, 1),
        defaultLeverage |-> R(3, 1)],
       [symbol |-> "USDC", name |-> "USD Coin", decimals |-> 6,
        priceDecimals |-> 8, minLeverage |-> R(1, 1), maxLeverage |-> R(50, 1),
        defaultLeverage |-> R(5, 1)] >>

\* positionFee taken from the swap fee line.
FEE_STRUCTURE_swapFee ==
    [swapFee |-> R(5, 10000),
     positionFee |-> R(5, 10000),
     liquidationFee |-> R(2, 100),
     borrowingFee |-> R(1, 10000),
     fundingRate |-> R(1, 10000)]

FEE_STRUCTURE ==
    [swapFee |-> R(5, 10000),
     positionFee |-> R(1, 10000),
     liquidationFee |-> R(2, 100),
     borrowingFee |-> R(1, 10000),
     fundingRate |-> R(1, 10000)]

RISK_LEVELS ==
    [CONSERVATIVE |-> [name |-> "Conservative", maxLeverage |-> R(3, 1)],
     MODERATE |-> [name |-> "Moderate", maxLeverage |-> R(10, 1)],
     AGGRESSIVE |-> [name |-> "Aggressive", maxLeverage |-> R(50, 1)]]

\* Array.prototype.find on SUPPORTED_ASSETS by symbol: the index of the first
\* match, 0 when there is none (find returns undefined).
FindAsset(symbol) ==
    IF \E i \in 1..Len(SUPPORTED_ASSETS) : SUPPORTED_ASSETS[i].symbol = symbol
    THEN CHOOSE i \in 1..Len(SUPPORTED_ASSETS) :
            /\ SUPPORTED_ASSETS[i].symbol = symbol
            /\ \A j \in 1..(i - 1) : SUPPORTED_ASSETS[j].symbol # symbol
    ELSE 0

----------------------------------------------------------------------------
(* Results of a call *)

NoResult == [tag |-> "none"]

Returned(v) == [tag |-> "returned", value |-> v]

Thrown(e) == [tag |-> "thrown", error |-> e]

\* A message; the template literals carry the interpolated asset and number.
Message(text) == [text |-> text, asset |-> "", num |-> Zero]

MessageFor(text, asset, num) == [text |-> text, asset |-> asset, num |-> num]

----------------------------------------------------------------------------
(* gmx-calculations: calculateTotalFees *)

positionSizeOf(p) == Mul(p.collateral, p.leverage)

\* The position fee accrues per hour like the other two.
calculateTotalFees_hourlyPositionFee(p, hours) ==
    LET positionSize == positionSizeOf(p)
        positionFee == Mul(Mul(positionSize, FEE_STRUCTURE.positionFee), hours)
        borrowingFee == Mul(Mul(positionSize, FEE_STRUCTURE.borrowingFee), hours)
        fundingFee == Mul(Mul(positionSize, FEE_STRUCTURE.fundingRate), hours)
    IN  [positionFee |-> positionFee,
         borrowingFee |-> borrowingFee,
         fundingFee |-> fundingFee,
         totalFees |-> Add(Add(positionFee, borrowingFee), fundingFee)]

calculateTotalFees(p, hours) ==
    LET positionSize == positionSizeOf(p)
        positionFee == Mul(positionSize, FEE_STRUCTURE.positionFee)
        borrowingFee == Mul(Mul(positionSize, FEE_STRUCTURE.borrowingFee), hours)
        fundingFee == Mul(Mul(positionSize, FEE_STRUCTURE.fundingRate), hours)
        totalFees == Add(Add(positionFee, borrowingFee), fundingFee)
    IN  [positionFee |-> positionFee,
         borrowingFee |-> borrowingFee,
         fundingFee |-> fundingFee,
         totalFees |-> totalFees]

----------------------------------------------------------------------------
(* gmx-calculations: calculateLiquidationPrice *)

liquidationThreshold_low == R(80, 100)

liquidationThreshold == R(85, 100)

marginRatioOf_percent(leverage) == Div(leverage, Hundred)

marginRatioOf(leverage) == Div(One, leverage)

liquidationPriceOf_swapped(isLong, entryPrice, marginRatio) ==
    IF isLong
    THEN Mul(entryPrice, Add(One, Mul(marginRatio, liquidationThreshold)))
    ELSE Mul(entryPrice, Sub(One, Mul(marginRatio, liquidationThreshold)))

liquidationPriceOf(isLong, entryPrice, marginRatio) ==
    IF isLong
    THEN Mul(entryPrice, Sub(One, Mul(marginRatio, liquidationThreshold)))
    ELSE Mul(entryPrice, Add(One, Mul(marginRatio, liquidationThreshold)))

calculateLiquidationPrice(p) ==
    LET assetConfig == FindAsset(p.asset)
        marginRatio == marginRatioOf(p.leverage)
        liquidationPrice == liquidationPriceOf(p.isLong, p.entryPrice, marginRatio)
        distanceToLiquidation == Abs(Sub(p.entryPrice, liquidationPrice))
        distancePercentage == Mul(Div(distanceToLiquidation, p.entryPrice), Hundred)
    IN  IF assetConfig = 0
        THEN Thrown(MessageFor("Asset ${asset} not supported", p.asset, Zero))
        ELSE Returned([liquidationPrice |-> liquidationPrice,
                       distanceToLiquidation |-> distanceToLiquidation,
                       distancePercentage |-> distancePercentage,
                       marginRatio |-> Mul(marginRatio, Hundred)])

----------------------------------------------------------------------------
(* gmx-calculations: calculatePnL *)

\* The change taken relative to the current price.
priceChangePercentageOf_overCurrent(entryPrice, currentPrice) ==
    Mul(Div(Sub(currentPrice, entryPrice), currentPrice), Hundred)

priceChangePercentageOf(entryPrice, currentPrice) ==
    Mul(Div(Sub(currentPrice, entryPrice), entryPrice), Hundred)

pnlOf_noFlip(p, priceChangePercentage) ==
    Mul(positionSizeOf(p), Div(priceChangePercentage, Hundred))

pnlOf(p, priceChangePercentage) ==
    IF p.isLong
    THEN Mul(positionSizeOf(p), Div(priceChangePercentage, Hundred))
    ELSE Mul(positionSizeOf(p), Div(Neg(priceChangePercentage), Hundred))

pnlPercentageOf_noLeverage(p, priceChangePercentage) ==
    IF p.isLong THEN priceChangePercentage ELSE Neg(priceChangePercentage)

pnlPercentageOf(p, priceChangePercentage) ==
    IF p.isLong
    THEN Mul(priceChangePercentage, p.leverage)
    ELSE Mul(Neg(priceChangePercentage), p.leverage)

breakevenHours_week == R(168, 1)

breakevenHours == R(24, 1)

breakevenPriceOf_sameDirection(p) ==
    LET totalFees == calculateTotalFees(p, breakevenHours).totalFees
        breakevenPriceChange == Mul(Div(totalFees, positionSizeOf(p)), Hundred)
    IN  Mul(p.entryPrice, Add(One, Div(breakevenPriceChange, Hundred)))

breakevenPriceOf(p) ==
    LET totalFees == calculateTotalFees(p, breakevenHours).totalFees
        breakevenPnL == totalFees
        breakevenPriceChange == Mul(Div(breakevenPnL, positionSizeOf(p)), Hundred)
    IN  IF p.isLong
        THEN Mul(p.entryPrice, Add(One, Div(breakevenPriceChange, Hundred)))
        ELSE Mul(p.entryPrice, Sub(One, Div(breakevenPriceChange, Hundred)))

\* The return taken on the position size instead of the collateral.
calculatePnL_roiOnSize(p, currentPrice) ==
    LET priceChangePercentage == priceChangePercentageOf(p.entryPrice, currentPrice)
        pnl == pnlOf(p, priceChangePercentage)
        pnlPercentage == pnlPercentageOf(p, priceChangePercentage)
        roi == Mul(Div(pnl, positionSizeOf(p)), Hundred)
    IN  [pnl |-> pnl,
         pnlPercentage |-> pnlPercentage,
         roi |-> roi,
         breakevenPrice |-> breakevenPriceOf(p)]

calculatePnL(p, currentPrice) ==
    LET priceChangePercentage == priceChangePercentageOf(p.entryPrice, currentPrice)
        pnl == pnlOf(p, priceChangePercentage)
        pnlPercentage == pnlPercentageOf(p, priceChangePercentage)
        roi == Mul(Div(pnl, p.collateral), Hundred)
    IN  [pnl |-> pnl,
         pnlPercentage |-> pnlPercentage,
         roi |-> roi,
         breakevenPrice |-> breakevenPriceOf(p)]

----------------------------------------------------------------------------
(* gmx-calculations: calculateRiskReward *)

\* The short branch keeps the sign of the distance to the stop.
maxLossOf_signedShort(p, stopLoss) ==
    IF p.isLong
    THEN Abs(Sub(p.entryPrice, stopLoss))
    ELSE Sub(stopLoss, p.entryPrice)

maxLossOf(p, stopLoss) ==
    IF p.isLong
    THEN Abs(Sub(p.entryPrice, stopLoss))
    ELSE Abs(Sub(stopLoss, p.entryPrice))

\* The short branch measures the profit from the stop-loss level.
maxProfitOf_shortFromStop(p, stopLoss, takeProfit) ==
    IF p.isLong
    THEN Abs(Sub(takeProfit, p.entryPrice))
    ELSE Abs(Sub(p.entryPrice, stopLoss))

maxProfitOf(p, stopLoss, takeProfit) ==
    IF p.isLong
    THEN Abs(Sub(takeProfit, p.entryPrice))
    ELSE Abs(Sub(p.entryPrice, takeProfit))

\* The probability left as a fraction in the returned record.
probabilityPercentOf_fraction(probabilityOfProfit) == probabilityOfProfit

probabilityPercentOf(probabilityOfProfit) == Mul(probabilityOfProfit, Hundred)

\* The expected value computed from the probability in percent.
expectedValueOf_percent(maxProfit, maxLoss, probabilityOfProfit) ==
    Sub(Mul(maxProfit, Mul(probabilityOfProfit, Hundred)),
        Mul(maxLoss, Sub(One, Mul(probabilityOfProfit, Hundred))))

expectedValueOf(maxProfit, maxLoss, probabilityOfProfit) ==
    Sub(Mul(maxProfit, probabilityOfProfit),
        Mul(maxLoss, Sub(One, probabilityOfProfit)))

calculateRiskReward(p, stopLoss, takeProfit) ==
    LET maxLoss == maxLossOf(p, stopLoss)
        maxProfit == maxProfitOf(p, stopLoss, takeProfit)
        riskRewardRatio == Div(maxProfit, maxLoss)
        probabilityOfProfit == Div(One, Add(One, riskRewardRatio))
        expectedValue == expectedValueOf(maxProfit, maxLoss, probabilityOfProfit)
    IN  [riskRewardRatio |-> riskRewardRatio,
         expectedValue |-> expectedValue,
         probabilityOfProfit |-> probabilityPercentOf(probabilityOfProfit),
         maxLoss |-> maxLoss,
         maxProfit |-> maxProfit]

----------------------------------------------------------------------------
(* gmx-calculations: calculateSafeLeverage *)

riskMultiplier ==
    [Conservative |-> R(1, 2), Moderate |-> R(1, 1), Aggressive |-> R(3, 2)]

calculateSafeLeverage(asset, volatility, riskTolerance) ==
    LET baseLeverage == MathMax(One, MathMin(R(50, 1), Div(R(10, 1), volatility)))
        recommendedLeverage == MathRound(Mul(baseLeverage, riskMultiplier[riskTolerance]))
    IN  MathMax(One, MathMin(R(50, 1), recommendedLeverage))

----------------------------------------------------------------------------
(* gmx-calculations: validatePosition *)

AssetRequired == Message("Asset is required")

CollateralError == Message("Collateral must be greater than 0")

LeverageError == Message("Leverage must be between 1x and 50x")

EntryPriceError == Message("Entry price must be greater than 0")

MaxLeverageError(asset, maxLeverage) ==
    MessageFor("Maximum leverage for ${asset} is ${assetConfig.maxLeverage}x",
               asset, maxLeverage)

minAllowedLeverage == R(1, 1)

maxAllowedLeverage == R(50, 1)

\* Stops at the first violation found.
errorsOf_firstOnly(p) ==
    IF p.asset = "" THEN <<AssetRequired>>
    ELSE IF Le(p.collateral, Zero) THEN <<CollateralError>>
    ELSE IF Lt(p.leverage, minAllowedLeverage) \/ Gt(p.leverage, maxAllowedLeverage)
         THEN <<LeverageError>>
    ELSE IF Le(p.entryPrice, Zero) THEN <<EntryPriceError>>
    ELSE <<>>

errorsOf(p) ==
    LET assetConfig == FindAsset(p.asset)
    IN  (IF p.asset = "" THEN <<AssetRequired>> ELSE <<>>)
        \o (IF Le(p.collateral, Zero) THEN <<CollateralError>> ELSE <<>>)
        \o (IF Lt(p.leverage, minAllowedLeverage) \/ Gt(p.leverage, maxAllowedLeverage)
            THEN <<LeverageError>> ELSE <<>>)
        \o (IF Le(p.entryPrice, Zero) THEN <<EntryPriceError>> ELSE <<>>)
        \o (IF assetConfig # 0 /\ Gt(p.leverage, SUPPORTED_ASSETS[assetConfig].maxLeverage)
            THEN <<MaxLeverageError(p.asset, SUPPORTED_ASSETS[assetConfig].maxLeverage)>>
            ELSE <<>>)

validatePosition(p) ==
    LET errors == errorsOf(p)
    IN  [isValid |-> Len(errors) = 0, errors |-> errors]

----------------------------------------------------------------------------
(* The callers' inputs *)

MaxLeverageHalf == 5

MaxCollateralSteps == 2

MaxPriceSteps == 1

MaxHours == 2

Assets == {"", "AVAX", "BTC", "ETH", "USDC", "DOGE"}

\* The leverage slider moves in steps of 0.5; 60 is beyond every maximum.
Leverages ==
    {R(k, 2) : k \in 0..MaxLeverageHalf} \cup {R(5, 1), R(10, 1), R(50, 1), R(60, 1)}

Collaterals == {R(500 * k, 1) : k \in -1..MaxCollateralSteps}

\* Prices around 25.50 in steps of 10 percent of it, and two non-positive ones.
Prices ==
    {R(255 * k, 100) : k \in (10 - MaxPriceSteps)..(10 + MaxPriceSteps)}
        \cup {Zero, R(-1, 1)}

Hours == {R(h, 1) : h \in 0..MaxHours} \cup {R(24, 1)}

PositionParams ==
    [asset : Assets, collateral : Collaterals, leverage : Leverages,
     isLong : BOOLEAN, entryPrice : Prices]

----------------------------------------------------------------------------
(* The calls *)

\* The Dashboard's initial calculatorState.
DefaultState ==
    [asset |-> "AVAX", collateral |-> R(1000, 1), leverage |-> R(5, 1),
     isLong |-> TRUE, entryPrice |-> R(2550, 100), currentPrice |-> R(2550, 100)]

Null == [tag |-> "null"]

\* No calculator component is rendered: the library is called directly.
NoComponent ==
    /\ state = DefaultState
    /\ component = "none"
    /\ stopLossState = Zero
    /\ takeProfitState = Zero
    /\ riskToleranceState = "Moderate"
    /\ calculationState = Null
    /\ errorsState = <<>>
    /\ run = <<>>

\* `let timeout` before the first call of the debounced function.
Undefined == [callback |-> "undefined", due |-> 0, args |-> ""]

\* No timer is pending and neither returned function has been called; an
\* unassigned `let inThrottle` is undefined, which `!inThrottle` reads as false.
TimersIdle ==
    /\ now = 0
    /\ timers = {}
    /\ timeout = Undefined
    /\ inThrottle = FALSE
    /\ trace = <<>>

\* No debounced or throttled function has been made.
NoTimers ==
    /\ TimersIdle
    /\ wait = 0
    /\ limit = 0

Init ==
    /\ params \in PositionParams
    /\ call = [fn |-> "none", args |-> <<>>]
    /\ result = NoResult
    /\ NoComponent
    /\ NoTimers

ValidatePosition ==
    /\ call' = [fn |-> "validatePosition", args |-> <<>>]
    /\ result' = Returned(validatePosition(params))
    /\ UNCHANGED <<params, uiVars, timerVars>>

CalculateLiquidationPrice ==
    /\ call' = [fn |-> "calculateLiquidationPrice", args |-> <<>>]
    /\ result' = calculateLiquidationPrice(params)
    /\ UNCHANGED <<params, uiVars, timerVars>>

CalculatePnL(currentPrice) ==
    /\ call' = [fn |-> "calculatePnL", args |-> <<currentPrice>>]
    /\ result' = Returned(calculatePnL(params, currentPrice))
    /\ UNCHANGED <<params, uiVars, timerVars>>

\* Keeps the fees of the previous call when called twice in a row.
CalculateTotalFees_cached(hours) ==
    /\ call' = [fn |-> "calculateTotalFees", args |-> <<hours>>]
    /\ result' = IF call.fn = "calculateTotalFees"
                 THEN result
                 ELSE Returned(calculateTotalFees(params, hours))
    /\ UNCHANGED <<params, uiVars, timerVars>>

CalculateTotalFees(hours) ==
    /\ call' = [fn |-> "calculateTotalFees", args |-> <<hours>>]
    /\ result' = Returned(calculateTotalFees(params, hours))
    /\ UNCHANGED <<params, uiVars, timerVars>>

Next ==
    \/ ValidatePosition
    \/ CalculateLiquidationPrice
    \/ \E currentPrice \in Prices : CalculatePnL(currentPrice)
    \/ \E hours \in Hours : CalculateTotalFees(hours)

Spec == Init /\ [][Next]_vars

----------------------------------------------------------------------------
(* The whole library: all six calculators *)

MaxLevelSteps == 2

MaxVolatilitySteps == 17

\* Stop-loss and take-profit levels around 25.50, and 0.
Levels ==
    {R(255 * k, 100) : k \in (10 - MaxLevelSteps)..(10 + MaxLevelSteps)} \cup {Zero}

\* Volatilities in steps of 0.05 (the table of the recommendation component
\* holds 0.05, 0.65, 0.75 and 0.85, its default is 0.5), and three large ones.
Volatilities ==
    {R(k, 20) : k \in 0..MaxVolatilitySteps} \cup {R(4, 1), R(10, 1), R(20, 1)}

RiskTolerances == {"Conservative", "Moderate", "Aggressive"}

LibraryParams ==
    {p \in PositionParams :
        /\ p.asset \in {"AVAX", "DOGE"}
        /\ p.collateral = R(1000, 1)
        /\ p.leverage = R(5, 1)}

InitLibrary ==
    /\ params \in LibraryParams
    /\ call = [fn |-> "none", args |-> <<>>]
    /\ result = NoResult
    /\ NoComponent
    /\ NoTimers

CalculateRiskReward(stopLoss, takeProfit) ==
    /\ call' = [fn |-> "calculateRiskReward", args |-> <<stopLoss, takeProfit>>]
    /\ result' = Returned(calculateRiskReward(params, stopLoss, takeProfit))
    /\ UNCHANGED <<params, uiVars, timerVars>>

CalculateSafeLeverage(volatility, riskTolerance) ==
    /\ call' = [fn |-> "calculateSafeLeverage",
                args |-> <<params.asset, volatility, riskTolerance>>]
    /\ result' = Returned(calculateSafeLeverage(params.asset, volatility, riskTolerance))
    /\ UNCHANGED <<params, uiVars, timerVars>>

NextLibrary ==
    \/ Next
    \/ \E stopLoss \in Levels, takeProfit \in Levels :
          CalculateRiskReward(stopLoss, takeProfit)
    \/ \E volatility \in Volatilities, riskTolerance \in RiskTolerances :
          CalculateSafeLeverage(volatility, riskTolerance)

SpecLibrary == InitLibrary /\ [][NextLibrary]_vars

----------------------------------------------------------------------------
(* utils: getRiskLevel *)

getRiskLevel(leverage) ==
    IF Le(leverage, R(3, 1)) THEN "Conservative"
    ELSE IF Le(leverage, R(10, 1)) THEN "Moderate"
    ELSE "Aggressive"

----------------------------------------------------------------------------
(* The Dashboard and the calculator components *)

UI_CONSTANTS ==
    [priceChangeScenarios |-> <<R(5, 1), R(10, 1), R(20, 1), R(50, 1)>>,
     timeframes |-> << [label |-> "1 Hour", value |-> R(1, 1)],
                       [label |-> "1 Day", value |-> R(24, 1)],
                       [label |-> "7 Days", value |-> R(168, 1)],
                       [label |-> "30 Days", value |-> R(720, 1)] >>]

\* ASSET_VOLATILITY[asset] || 0.5
volatilityOf(asset) ==
    CASE asset = "AVAX" -> R(85, 100)
      [] asset = "BTC" -> R(65, 100)
      [] asset = "ETH" -> R(75, 100)
      [] asset = "USDC" -> R(5, 100)
      [] OTHER -> R(5, 10)

\* The PositionParams object literal every effect builds from the state.
paramsOf(st) ==
    [asset |-> st.asset, collateral |-> st.collateral, leverage |-> st.leverage,
     isLong |-> st.isLong, entryPrice |-> st.entryPrice]

Stored(v) == [tag |-> "stored", value |-> v]

\* One library call of an effect run: the function, the PositionParams built
\* from the state, the other numeric arguments and, for validatePosition, the
\* isValid it returned.
Invoked(fn, st, nums, ok) == [fn |-> fn, params |-> paramsOf(st), nums |-> nums, ok |-> ok]

Validated(st, validation) == Invoked("validatePosition", st, <<>>, validation.isValid)

Outcome(c, e, r) == [calculation |-> c, errors |-> e, run |-> r]

\* What every effect does when validatePosition does not return isValid.
\* Leaves the errors list empty.
Rejected_noErrors(st, validation) ==
    Outcome(Null, <<>>, <<Validated(st, validation)>>)

Rejected(st, validation) ==
    Outcome(Null, validation.errors, <<Validated(st, validation)>>)

\* The body of the LiquidationCalculator effect, given what validatePosition
\* returns and what calculateLiquidationPrice returns or throws.
LiquidationRun(st, validation, res) ==
    IF validation.isValid
    THEN IF res.tag = "thrown"
         THEN Outcome(Null, <<res.error>>,
                      <<Validated(st, validation),
                        Invoked("calculateLiquidationPrice", st, <<>>, TRUE)>>)
         ELSE Outcome(Stored([liquidationPrice |-> res.value.liquidationPrice,
                              distanceToLiquidation |-> res.value.distanceToLiquidation,
                              distancePercentage |-> res.value.distancePercentage,
                              marginRatio |-> res.value.marginRatio,
                              riskLevel |-> getRiskLevel(st.leverage)]),
                      <<>>,
                      <<Validated(st, validation),
                        Invoked("calculateLiquidationPrice", st, <<>>, TRUE)>>)
    ELSE Rejected(st, validation)

\* LiquidationCalculator: useEffect on [state].
LiquidationEffect(st) ==
    LiquidationRun(st, validatePosition(paramsOf(st)),
                   calculateLiquidationPrice(paramsOf(st)))

\* The price of one scenario of the PnL simulator.
scenarioPriceOf(st, change) ==
    Mul(st.entryPrice,
        Add(One, Div(IF st.isLong THEN change ELSE Neg(change), Hundred)))

scenarioRow(change, newPrice, pnlResult) ==
    [priceChange |-> change,
     price |-> newPrice,
     pnl |-> pnlResult.pnl,
     pnlPercentage |-> pnlResult.pnlPercentage,
     roi |-> pnlResult.roi]

scenarioAt(st, change, newPrice) ==
    scenarioRow(change, newPrice, calculatePnL(paramsOf(st), newPrice))

scenarioOf(st, change) == scenarioAt(st, change, scenarioPriceOf(st, change))

\* The body of the PnLSimulator effect, given the scenarios it maps and the
\* result of its breakeven call.
PnLRun(st, validation, scenarios, breakevenResult) ==
    IF validation.isValid
    THEN Outcome(Stored([scenarios |-> scenarios,
                         breakevenPrice |-> breakevenResult.breakevenPrice]),
                 <<>>,
                 <<Validated(st, validation)>>
                 \o [i \in 1..Len(scenarios) |->
                        Invoked("calculatePnL", st, <<scenarios[i].price>>, TRUE)]
                 \o <<Invoked("calculatePnL", st, <<st.entryPrice>>, TRUE)>>)
    ELSE Rejected(st, validation)

\* PnLSimulator: useEffect on [state].
PnLEffect(st) ==
    PnLRun(st, validatePosition(paramsOf(st)),
           [i \in 1..Len(UI_CONSTANTS.priceChangeScenarios) |->
               scenarioOf(st, UI_CONSTANTS.priceChangeScenarios[i])],
           calculatePnL(paramsOf(st), st.entryPrice))

timeframeRow(timeframe, feeResult) ==
    [label |-> timeframe.label,
     hours |-> timeframe.value,
     positionFee |-> feeResult.positionFee,
     borrowingFee |-> feeResult.borrowingFee,
     fundingFee |-> feeResult.fundingFee,
     totalFees |-> feeResult.totalFees]

timeframeOf(st, timeframe) ==
    timeframeRow(timeframe, calculateTotalFees(paramsOf(st), timeframe.value))

\* The body of the FundingFeesEstimator effect.
FeesRun(st, validation, timeframes, fees24h) ==
    IF validation.isValid
    THEN Outcome(Stored([timeframes |-> timeframes, totalFees24h |-> fees24h.totalFees]),
                 <<>>,
                 <<Validated(st, validation)>>
                 \o [i \in 1..Len(timeframes) |->
                        Invoked("calculateTotalFees", st, <<timeframes[i].hours>>, TRUE)]
                 \o <<Invoked("calculateTotalFees", st, <<R(24, 1)>>, TRUE)>>)
    ELSE Rejected(st, validation)

\* FundingFeesEstimator: useEffect on [state].
FeesEffect(st) ==
    FeesRun(st, validatePosition(paramsOf(st)),
            [i \in 1..Len(UI_CONSTANTS.timeframes) |->
                timeframeOf(st, UI_CONSTANTS.timeframes[i])],
            calculateTotalFees(paramsOf(st), R(24, 1)))

reasoningOf(volatility) ==
    IF Gt(volatility, R(8, 10))
    THEN "High volatility asset - consider lower leverage for risk management"
    ELSE IF Gt(volatility, R(5, 10))
    THEN "Moderate volatility - balanced leverage recommended"
    ELSE "Low volatility asset - higher leverage may be acceptable"

\* The body of the SafeLeverageRecommendation effect.  The reasoning text
\* ends with the formatted volatility, kept here as a number.
LeverageRun(st, validation, volatility, recommendedLeverage, maxSafeLeverage) ==
    IF validation.isValid
    THEN Outcome(Stored([recommendedLeverage |-> recommendedLeverage,
                         riskLevel |-> getRiskLevel(st.leverage),
                         volatility |-> volatility,
                         maxSafeLeverage |-> maxSafeLeverage,
                         reasoning |-> MessageFor(reasoningOf(volatility), "",
                                                  Mul(volatility, Hundred))]),
                 <<>>,
                 <<Validated(st, validation),
                   Invoked("calculateSafeLeverage", st, <<volatility>>, TRUE),
                   Invoked("calculateSafeLeverage", st, <<volatility>>, TRUE)>>)
    ELSE Rejected(st, validation)

\* SafeLeverageRecommendation: useEffect on [state, riskTolerance].
LeverageEffect(st, tolerance) ==
    LeverageRun(st, validatePosition(paramsOf(st)), volatilityOf(st.asset),
                calculateSafeLeverage(st.asset, volatilityOf(st.asset), tolerance),
                calculateSafeLeverage(st.asset, volatilityOf(st.asset), "Conservative"))

recommendationOf(riskRewardRatio) ==
    IF Ge(riskRewardRatio, R(3, 1))
    THEN "Excellent risk/reward ratio. This trade setup looks very favorable."
    ELSE IF Ge(riskRewardRatio, R(2, 1))
    THEN "Good risk/reward ratio. This trade setup is reasonable."
    ELSE IF Ge(riskRewardRatio, R(15, 10))
    THEN "Acceptable risk/reward ratio. Consider adjusting stop-loss or take-profit levels."
    ELSE "Poor risk/reward ratio. Consider revising your trade setup or avoiding this trade."

\* The errors the effect collects when it does not call calculateRiskReward.
levelErrorsOf(st, sl, tp) ==
    (IF Le(sl, Zero)
     THEN <<Message("Stop-loss must be greater than 0")>> ELSE <<>>)
    \o (IF Le(tp, Zero)
        THEN <<Message("Take-profit must be greater than 0")>> ELSE <<>>)
    \o (IF Ge(sl, tp)
        THEN <<Message("Stop-loss must be below take-profit for long positions")>>
        ELSE <<>>)
    \o (IF Le(sl, tp) /\ ~st.isLong
        THEN <<Message("Stop-loss must be above take-profit for short positions")>>
        ELSE <<>>)

\* Looks at the two levels only.
riskRewardGuard_levelsOnly(validation, sl, tp) ==
    Gt(sl, Zero) /\ Gt(tp, Zero)

\* The condition under which the effect calls calculateRiskReward.
riskRewardGuard(validation, sl, tp) ==
    validation.isValid /\ Gt(sl, Zero) /\ Gt(tp, Zero)

\* The body of the RiskRewardRatio effect.
RiskRewardRun(st, sl, tp, validation, res) ==
    IF riskRewardGuard(validation, sl, tp)
    THEN Outcome(Stored([riskRewardRatio |-> res.riskRewardRatio,
                         expectedValue |-> res.expectedValue,
                         probabilityOfProfit |-> res.probabilityOfProfit,
                         maxLoss |-> res.maxLoss,
                         maxProfit |-> res.maxProfit,
                         recommendation |-> recommendationOf(res.riskRewardRatio)]),
                 <<>>,
                 <<Validated(st, validation),
                   Invoked("calculateRiskReward", st, <<sl, tp>>, TRUE)>>)
    ELSE Outcome(Null, validation.errors \o levelErrorsOf(st, sl, tp),
                 <<Validated(st, validation)>>)

\* RiskRewardRatio: useEffect on [state, stopLoss, takeProfit].
RiskRewardEffect(st, sl, tp) ==
    RiskRewardRun(st, sl, tp, validatePosition(paramsOf(st)),
                  calculateRiskReward(paramsOf(st), sl, tp))

----------------------------------------------------------------------------
(* The Dashboard's handlers.  Each sets state and lets React re-render, which
   runs the effect of the rendered component: the handler and the effect it
   triggers are one step. *)

Components == {"liquidation", "pnl", "fees", "leverage", "risk-reward"}

\* The effect of the component c on the state st and the local state.
effectOf(c, st, sl, tp, tolerance) ==
    CASE c = "liquidation" -> LiquidationEffect(st)
      [] c = "pnl" -> PnLEffect(st)
      [] c = "fees" -> FeesEffect(st)
      [] c = "leverage" -> LeverageEffect(st, tolerance)
      [] c = "risk-reward" -> RiskRewardEffect(st, sl, tp)

\* The component c is rendered with the state st and the local state sl, tp,
\* tolerance, and its effect has stored its outcome.
Render(c, st, sl, tp, tolerance, outcome) ==
    /\ component' = c
    /\ state' = st
    /\ stopLossState' = sl
    /\ takeProfitState' = tp
    /\ riskToleranceState' = tolerance
    /\ calculationState' = outcome.calculation
    /\ errorsState' = outcome.errors
    /\ run' = outcome.run
    /\ UNCHANGED <<libVars, timerVars>>

\* parseFloat of the text typed into a number input; the empty text and
\* everything else that is no number give NaN.
parseFloat(text) ==
    CASE text = "0" -> Zero
      [] text = "1000" -> R(1000, 1)
      [] text = "25.5" -> R(255, 10)
      [] text = "28.05" -> R(2805, 100)
      [] OTHER -> NaN

\* x || 0: 0 and NaN are falsy.
orZero(x) == IF IsNaN(x) \/ Eq(x, Zero) THEN Zero ELSE x

CollateralTexts == {"", "1000"}

PriceTexts == {"", "25.5", "28.05"}

CurrentPriceTexts == {"28.05"}

LevelTexts == {"", "25.5"}

\* Positions of the leverage slider (min 1, max 50, step 0.5).
SliderLeverages == {R(1, 1), R(50, 1)}

CommonRatios == {R(1, 1), R(2, 1), R(3, 1), R(5, 1)}

\* handleStateChange: setCalculatorState(prev => ({ ...prev, ...newState })).
handleStateChange(prev, newState) ==
    [f \in DOMAIN prev |-> IF f \in DOMAIN newState THEN newState[f] ELSE prev[f]]

\* The Dashboard renders with the liquidation tab open.
InitUI ==
    /\ NoTimers
    /\ params = paramsOf(DefaultState)
    /\ call = [fn |-> "none", args |-> <<>>]
    /\ result = NoResult
    /\ component = "liquidation"
    /\ state = DefaultState
    /\ stopLossState = Zero
    /\ takeProfitState = Zero
    /\ riskToleranceState = "Moderate"
    /\ \E outcome \in {LiquidationEffect(DefaultState)} :
          /\ calculationState = outcome.calculation
          /\ errorsState = outcome.errors
          /\ run = outcome.run

\* Opening a tab mounts its component: its local state is initialised and
\* its effect runs.
SelectTab(c) ==
    /\ c \in Components
    /\ Render(c, state,
              Mul(state.entryPrice, R(95, 100)),
              Mul(state.entryPrice, R(110, 100)),
              "Moderate",
              effectOf(c, state,
                       Mul(state.entryPrice, R(95, 100)),
                       Mul(state.entryPrice, R(110, 100)),
                       "Moderate"))

\* The LiquidationCalculator is re-rendered with the state st.
LiquidationRender(st) ==
    Render(component, st, stopLossState, takeProfitState, riskToleranceState,
           LiquidationEffect(st))

SetAsset(symbol) ==
    /\ component = "liquidation"
    /\ LiquidationRender(handleStateChange(state, [asset |-> symbol]))

SetIsLong(isLong) ==
    /\ component = "liquidation"
    /\ LiquidationRender(handleStateChange(state, [isLong |-> isLong]))

SetCollateral(text) ==
    /\ component = "liquidation"
    /\ LiquidationRender(
          handleStateChange(state, [collateral |-> orZero(parseFloat(text))]))

SetLeverage(value) ==
    /\ component = "liquidation"
    /\ LiquidationRender(handleStateChange(state, [leverage |-> value]))

SetEntryPrice(text) ==
    /\ component = "liquidation"
    /\ LiquidationRender(
          handleStateChange(state, [entryPrice |-> orZero(parseFloat(text))]))

SetCurrentPrice(text) ==
    /\ component = "liquidation"
    /\ LiquidationRender(
          handleStateChange(state, [currentPrice |-> orZero(parseFloat(text))]))

\* The SafeLeverageRecommendation is re-rendered with the state st and the
\* risk tolerance.
LeverageRender(st, tolerance) ==
    Render(component, st, stopLossState, takeProfitState, tolerance,
           LeverageEffect(st, tolerance))

SetCurrentLeverage(value) ==
    /\ component = "leverage"
    /\ LeverageRender(handleStateChange(state, [leverage |-> value]),
                      riskToleranceState)

\* Applies the leverage of the conservative recommendation.
ApplyRecommendedLeverage_maxSafe ==
    /\ component = "leverage"
    /\ calculationState.tag = "stored"
    /\ LeverageRender(
          handleStateChange(state,
              [leverage |-> calculationState.value.maxSafeLeverage]),
          riskToleranceState)

\* The button is rendered only with a recommendation.
ApplyRecommendedLeverage ==
    /\ component = "leverage"
    /\ calculationState.tag = "stored"
    /\ LeverageRender(
          handleStateChange(state,
              [leverage |-> calculationState.value.recommendedLeverage]),
          riskToleranceState)

SetRiskTolerance(level) ==
    /\ component = "leverage"
    /\ LeverageRender(state, level)

\* The RiskRewardRatio is re-rendered with the levels sl and tp.
RiskRewardRender(sl, tp) ==
    Render(component, state, sl, tp, riskToleranceState,
           RiskRewardEffect(state, sl, tp))

SetStopLoss(text) ==
    /\ component = "risk-reward"
    /\ RiskRewardRender(orZero(parseFloat(text)), takeProfitState)

SetTakeProfit(text) ==
    /\ component = "risk-reward"
    /\ RiskRewardRender(stopLossState, orZero(parseFloat(text)))

FivePercent == R(5, 100)

setCommonRatio(ratio) ==
    /\ component = "risk-reward"
    /\ RiskRewardRender(
          IF state.isLong
          THEN Mul(state.entryPrice, Sub(One, FivePercent))
          ELSE Mul(state.entryPrice, Add(One, FivePercent)),
          IF state.isLong
          THEN Mul(state.entryPrice, Add(One, Mul(FivePercent, ratio)))
          ELSE Mul(state.entryPrice, Sub(One, Mul(FivePercent, ratio))))

NextUI ==
    \/ \E c \in Components : SelectTab(c)
    \/ \E i \in 1..Len(SUPPORTED_ASSETS) : SetAsset(SUPPORTED_ASSETS[i].symbol)
    \/ \E isLong \in BOOLEAN : SetIsLong(isLong)
    \/ \E text \in CollateralTexts : SetCollateral(text)
    \/ \E value \in SliderLeverages : SetLeverage(value)
    \/ \E text \in PriceTexts : SetEntryPrice(text)
    \/ \E text \in CurrentPriceTexts : SetCurrentPrice(text)
    \/ \E value \in SliderLeverages : SetCurrentLeverage(value)
    \/ ApplyRecommendedLeverage
    \/ \E level \in RiskTolerances : SetRiskTolerance(level)
    \/ \E text \in LevelTexts : SetStopLoss(text)
    \/ \E text \in LevelTexts : SetTakeProfit(text)
    \/ \E ratio \in CommonRatios : setCommonRatio(ratio)

SpecUI == InitUI /\ [][NextUI]_vars

-----------------------------------------------------------------------------
(* utils: debounce and throttle *)

MaxTime == 5

MaxWait == 3

MaxCalls == 3

\* The arguments passed to the returned functions.
Args == {"a", "b"}

\* setTimeout(callback, delay): the timer handed to the event loop, which
\* runs the callback once, no earlier than delay ms from now.
setTimeout(callback, args, delay) ==
    [callback |-> callback, due |-> now + delay, args |-> args]

\* clearTimeout(t): the pending timers without t; nothing changes when t is
\* undefined or has run already.
clearTimeout(t) == timers \ {t}

\* The timers the event loop may run next: those that are due, the earliest
\* first.
Due == {t \in timers : t.due <= now /\ \A u \in timers : t.due <= u.due}

Event(kind, fn, args) == [kind |-> kind, fn |-> fn, at |-> now, args |-> args]

CallsMade == Cardinality({i \in DOMAIN trace : trace[i].kind = "call"})

\* debounce(func, wait) has been called and has returned its function.
InitDebounce ==
    /\ params = paramsOf(DefaultState)
    /\ call = [fn |-> "none", args |-> <<>>]
    /\ result = NoResult
    /\ NoComponent
    /\ TimersIdle
    /\ wait \in 1..MaxWait
    /\ limit = 0

\* throttle(func, limit) has been called and has returned its function.
InitThrottle ==
    /\ params = paramsOf(DefaultState)
    /\ call = [fn |-> "none", args |-> <<>>]
    /\ result = NoResult
    /\ NoComponent
    /\ TimersIdle
    /\ wait = 0
    /\ limit \in 1..MaxWait

\* A millisecond passes.
Tick ==
    /\ now < MaxTime
    /\ now' = now + 1
    /\ UNCHANGED <<timers, timeout, inThrottle, wait, limit, trace, libVars, uiVars>>

\* The debounced function that keeps the timer of the call before.
DebouncedCall_noClear(args) ==
    /\ CallsMade < MaxCalls
    /\ now + wait <= MaxTime
    /\ timeout' = setTimeout("func", args, wait)
    /\ timers' = timers \cup {timeout'}
    /\ trace' = Append(trace, Event("call", "debounced", args))
    /\ UNCHANGED <<now, inThrottle, wait, limit, libVars, uiVars>>

\* The function returned by debounce(func, wait), called with args.
DebouncedCall(args) ==
    /\ CallsMade < MaxCalls
    /\ now + wait <= MaxTime
    /\ timeout' = setTimeout("func", args, wait)
    /\ timers' = clearTimeout(timeout) \cup {timeout'}
    /\ trace' = Append(trace, Event("call", "debounced", args))
    /\ UNCHANGED <<now, inThrottle, wait, limit, libVars, uiVars>>

\* The timer callback of debounce: () => func(...args).
DebounceTimeout(t) ==
    /\ t.callback = "func"
    /\ timers' = timers \ {t}
    /\ trace' = Append(trace, Event("invoke", "debounced", t.args))
    /\ UNCHANGED <<now, timeout, inThrottle, wait, limit, libVars, uiVars>>

\* The throttled function that never sets inThrottle.
ThrottledCall_noFlag(args) ==
    /\ CallsMade < MaxCalls
    /\ now + limit <= MaxTime
    /\ trace' = trace \o <<Event("call", "throttled", args),
                           Event("invoke", "throttled", args)>>
    /\ timers' = timers \cup {setTimeout("inThrottle = false", "", limit)}
    /\ UNCHANGED <<now, timeout, inThrottle, wait, limit, libVars, uiVars>>

\* The function returned by throttle(func, limit), called with args.
ThrottledCall(args) ==
    /\ CallsMade < MaxCalls
    /\ now + limit <= MaxTime
    /\ IF ~inThrottle
       THEN /\ trace' = trace \o <<Event("call", "throttled", args),
                                   Event("invoke", "throttled", args)>>
            /\ inThrottle' = TRUE
            /\ timers' = timers \cup {setTimeout("inThrottle = false", "", limit)}
       ELSE /\ trace' = Append(trace, Event("call", "throttled", args))
            /\ UNCHANGED <<inThrottle, timers>>
    /\ UNCHANGED <<now, timeout, wait, limit, libVars, uiVars>>

\* The timer callback of throttle: () => (inThrottle = false).
ThrottleTimeout(t) ==
    /\ t.callback = "inThrottle = false"
    /\ timers' = timers \ {t}
    /\ inThrottle' = FALSE
    /\ UNCHANGED <<now, timeout, wait, limit, trace, libVars, uiVars>>

RunDebounceTimer == \E t \in Due : DebounceTimeout(t)

RunThrottleTimer == \E t \in Due : ThrottleTimeout(t)

NextDebounce ==
    \/ Tick
    \/ \E args \in Args : DebouncedCall(args)
    \/ RunDebounceTimer

SpecDebounce == InitDebounce /\ [][NextDebounce]_vars

\* Time passes and the event loop runs the timers that are due.
SpecDebounceFair ==
    /\ SpecDebounce
    /\ WF_vars(Tick)
    /\ WF_vars(RunDebounceTimer)

NextThrottle ==
    \/ Tick
    \/ \E args \in Args : ThrottledCall(args)
    \/ RunThrottleTimer

SpecThrottle == InitThrottle /\ [][NextThrottle]_vars

SpecThrottleFair ==
    /\ SpecThrottle
    /\ WF_vars(Tick)
    /\ WF_vars(RunThrottleTimer)

-----------------------------------------------------------------------------
(* JavaScript numbers as IEEE-754 binary64: the arithmetic of the quick-setup
   buttons with its rounding.  A natural number is a sequence of limbs in base
   2^15, lowest limb first, without leading zero limbs; a finite double is
   s * m * 2^e with s the sign, m an odd natural number below 2^53 (or 0) and
   e the exponent.  Overflow, underflow and division by zero lie outside the
   values handled here. *)

RECURSIVE BNorm(_)
BNorm(a) ==
    IF a = <<>> THEN a
    ELSE IF a[Len(a)] = 0 THEN BNorm(SubSeq(a, 1, Len(a) - 1))
    ELSE a

RECURSIVE BFromInt(_)
BFromInt(n) == IF n = 0 THEN <<>> ELSE <<n % 32768>> \o BFromInt(n \div 32768)

BHead(a) == IF a = <<>> THEN 0 ELSE a[1]

BTail(a) == IF a = <<>> THEN a ELSE Tail(a)

RECURSIVE BAddCarry(_, _, _)
BAddCarry(a, b, carry) ==
    IF a = <<>> /\ b = <<>>
    THEN IF carry = 0 THEN <<>> ELSE <<carry>>
    ELSE <<(BHead(a) + BHead(b) + carry) % 32768>>
         \o BAddCarry(BTail(a), BTail(b), (BHead(a) + BHead(b) + carry) \div 32768)

BAdd(a, b) == BAddCarry(a, b, 0)

\* a - b for a >= b.
RECURSIVE BSubBorrow(_, _, _)
BSubBorrow(a, b, borrow) ==
    IF a = <<>> THEN <<>>
    ELSE <<(a[1] - BHead(b) - borrow) % 32768>>
         \o BSubBorrow(Tail(a), BTail(b), IF a[1] - BHead(b) - borrow < 0 THEN 1 ELSE 0)

BSub(a, b) == BNorm(BSubBorrow(a, b, 0))

RECURSIVE BCmpAt(_, _, _)
BCmpAt(a, b, i) ==
    IF i = 0 THEN 0
    ELSE IF a[i] < b[i] THEN -1
    ELSE IF a[i] > b[i] THEN 1
    ELSE BCmpAt(a, b, i - 1)

\* -1, 0 or 1 as a is below, equal to or above b.
BCmp(a, b) ==
    IF Len(a) < Len(b) THEN -1
    ELSE IF Len(a) > Len(b) THEN 1
    ELSE BCmpAt(a, b, Len(a))

\* a * k + carry for a limb k.
RECURSIVE BMulSmall(_, _, _)
BMulSmall(a, k, carry) ==
    IF a = <<>>
    THEN IF carry = 0 THEN <<>> ELSE <<carry>>
    ELSE <<(a[1] * k + carry) % 32768>>
         \o BMulSmall(Tail(a), k, (a[1] * k + carry) \div 32768)

RECURSIVE BMulLimbs(_, _)
BMulLimbs(a, b) ==
    IF b = <<>> THEN <<>>
    ELSE BAdd(BMulSmall(a, b[1], 0), <<0>> \o BMulLimbs(a, Tail(b)))

BMul(a, b) == BNorm(BMulLimbs(a, b))

\* a * 2^n
BShl(a, n) ==
    IF a = <<>> THEN a
    ELSE [i \in 1..(n \div 15) |-> 0] \o BMulSmall(a, 2 ^ (n % 15), 0)

\* floor(a / 2^n)
BShr(a, n) ==
    IF Len(a) <= n \div 15 THEN <<>>
    ELSE BNorm([i \in 1..(Len(a) - n \div 15) |->
                   (a[i + n \div 15] \div 2 ^ (n % 15))
                   + (IF i + n \div 15 < Len(a)
                      THEN (a[i + n \div 15 + 1] % 2 ^ (n % 15)) * 2 ^ (15 - (n % 15))
                      ELSE 0)])

\* a mod 2^n
BLowBits(a, n) ==
    IF Len(a) <= n \div 15 THEN a
    ELSE BNorm(SubSeq(a, 1, n \div 15) \o <<a[n \div 15 + 1] % 2 ^ (n % 15)>>)

\* The number of bits of a.
BBitLen(a) ==
    IF a = <<>> THEN 0
    ELSE 15 * (Len(a) - 1)
         + (CHOOSE k \in 1..15 : 2 ^ (k - 1) <= a[Len(a)] /\ a[Len(a)] < 2 ^ k)

BIsOdd(a) == a # <<>> /\ a[1] % 2 = 1

BBit(a, i) == IF Len(a) <= i \div 15 THEN 0 ELSE (a[i \div 15 + 1] \div 2 ^ (i % 15)) % 2

\* The long division after the bit i of a has been brought down into the
\* remainder r: r reduced by b where b fits, and the quotient bit.
BDivReduce(b, i, q, r) ==
    IF BCmp(r, b) >= 0
    THEN [i |-> i - 1, q |-> BMulSmall(q, 2, 1), r |-> BSub(r, b)]
    ELSE [i |-> i - 1, q |-> BMulSmall(q, 2, 0), r |-> r]

\* n steps of the long division of a by b, from d on: the first half of the
\* steps, then the second half from where the first half ends.
RECURSIVE BDivSteps(_, _, _, _)
BDivSteps(a, b, d, n) ==
    IF n = 0 THEN d
    ELSE IF n = 1 THEN BDivReduce(b, d.i, d.q, BMulSmall(d.r, 2, BBit(a, d.i)))
    ELSE CHOOSE done \in {BDivSteps(a, b, half, n - (n \div 2)) :
                              half \in {BDivSteps(a, b, d, n \div 2)}} : TRUE

\* Quotient q and remainder r of a by b > 0.
BDivMod(a, b) ==
    BDivSteps(a, b, [i |-> BBitLen(a) - 1, q |-> <<>>, r |-> <<>>], BBitLen(a))

FZero == [s |-> 1, m |-> <<>>, e |-> 0]

\* The number of zero bits below the lowest one bit of m > 0, whose lowest
\* nonzero limb is the limb j.
BTrailingZerosAt(m, j) ==
    15 * (j - 1) + (CHOOSE k \in 0..14 : m[j] % 2 ^ k = 0 /\ m[j] % 2 ^ (k + 1) # 0)

BTrailingZeros(m) ==
    BTrailingZerosAt(m, CHOOSE j \in 1..Len(m) : m[j] # 0 /\ \A i \in 1..(j - 1) : m[i] = 0)

FShifted(s, m, e, n) == [s |-> s, m |-> BShr(m, n), e |-> e + n]

\* s * m * 2^e with the factors of two moved from m into e.
FCanon(s, m, e) ==
    IF m = <<>> THEN FZero ELSE FShifted(s, m, e, BTrailingZeros(m))

\* The top 53 bits q of m, one more where the bits cut off (rest) make more
\* than half a unit of q, or exactly half with q odd.
FRoundCut(s, e, q, c, sticky) ==
    FCanon(s, IF c > 0 \/ (c = 0 /\ (sticky \/ BIsOdd(q))) THEN BAdd(q, <<1>>) ELSE q, e)

\* The double nearest to s * m * 2^e, ties to even; sticky tells that the
\* exact value lies above m * 2^e.
FRound(s, m, e, sticky) ==
    IF BBitLen(m) <= 53 THEN FCanon(s, m, e)
    ELSE FRoundCut(s, e + BBitLen(m) - 53, BShr(m, BBitLen(m) - 53),
                   BCmp(BLowBits(m, BBitLen(m) - 53), BShl(<<1>>, BBitLen(m) - 54)),
                   sticky)

FFromInt(n) == FCanon(IF n < 0 THEN -1 ELSE 1, BFromInt(IF n < 0 THEN -n ELSE n), 0)

FNeg(x) == IF x.m = <<>> THEN x ELSE [x EXCEPT !.s = -x.s]

FAbs(x) == [x EXCEPT !.s = 1]

FMul(x, y) == FRound(x.s * y.s, BMul(x.m, y.m), x.e + y.e, FALSE)

\* The sum of s * a and t * b, both scaled by 2^e.
FAddAligned(s, a, t, b, e) ==
    IF s = t THEN FRound(s, BAdd(a, b), e, FALSE)
    ELSE IF BCmp(a, b) >= 0 THEN FRound(s, BSub(a, b), e, FALSE)
    ELSE FRound(t, BSub(b, a), e, FALSE)

FAdd(x, y) ==
    IF x.e <= y.e
    THEN FAddAligned(x.s, x.m, y.s, BShl(y.m, y.e - x.e), x.e)
    ELSE FAddAligned(x.s, BShl(x.m, x.e - y.e), y.s, y.m, y.e)

FSub(x, y) == FAdd(x, FNeg(y))

\* The quotient of x.m * 2^k by y.m, rounded.
FDivShifted(x, y, k, d) == FRound(x.s * y.s, d.q, x.e - y.e - k, d.r # <<>>)

FDivBy(x, y, k) == FDivShifted(x, y, k, BDivMod(BShl(x.m, k), y.m))

\* x / y for y # 0.
FDiv(x, y) ==
    IF x.m = <<>> THEN FZero
    ELSE FDivBy(x, y, IF BBitLen(y.m) + 55 > BBitLen(x.m)
                      THEN BBitLen(y.m) + 55 - BBitLen(x.m) ELSE 0)

FGt(x, y) == FSub(x, y).m # <<>> /\ FSub(x, y).s = 1

FGe(x, y) == FSub(x, y).s = 1

FLt(x, y) == FGt(y, x)

\* The number a decimal literal or parseFloat gives for the fraction n/d.
FFromFraction(x) == FDiv(FFromInt(x.n), FFromInt(x.d))

FOne == FFromInt(1)

\* The literal 0.05.
FFivePercent == FFromFraction(R(5, 100))

MaxEntrySteps == 12

\* Entry prices in steps of 2.55 up to the Dashboard's default 25.50 and above.
EntryPrices == {R(255 * k, 100) : k \in 1..MaxEntrySteps}

\* setCommonRatio: the stop-loss it sets.
commonRatioStopLoss(entryPrice, isLong) ==
    IF isLong
    THEN FMul(entryPrice, FSub(FOne, FFivePercent))
    ELSE FMul(entryPrice, FAdd(FOne, FFivePercent))

\* setCommonRatio: the take-profit it sets.
commonRatioTakeProfit(entryPrice, isLong, ratio) ==
    IF isLong
    THEN FMul(entryPrice, FAdd(FOne, FMul(FFivePercent, ratio)))
    ELSE FMul(entryPrice, FSub(FOne, FMul(FFivePercent, ratio)))

\* calculateRiskReward: maxLoss, maxProfit and their quotient.
riskRewardRatioOf(entryPrice, isLong, stopLoss, takeProfit) ==
    IF isLong
    THEN FDiv(FAbs(FSub(takeProfit, entryPrice)), FAbs(FSub(entryPrice, stopLoss)))
    ELSE FDiv(FAbs(FSub(entryPrice, takeProfit)), FAbs(FSub(stopLoss, entryPrice)))

\* The recommendation the effect derives from the ratio.
recommendationFor(riskRewardRatio) ==
    IF FGe(riskRewardRatio, FFromInt(3))
    THEN "Excellent risk/reward ratio. This trade setup looks very favorable."
    ELSE IF FGe(riskRewardRatio, FFromInt(2))
    THEN "Good risk/reward ratio. This trade setup is reasonable."
    ELSE IF FGe(riskRewardRatio, FFromFraction(R(15, 10)))
    THEN "Acceptable risk/reward ratio. Consider adjusting stop-loss or take-profit levels."
    ELSE "Poor risk/reward ratio. Consider revising your trade setup or avoiding this trade."

\* What the effect stores after the button has set the two levels.
QuickSetupStored(stopLoss, takeProfit, riskRewardRatio) ==
    IF validatePosition(params).isValid /\ FGt(stopLoss, FZero) /\ FGt(takeProfit, FZero)
    THEN Returned([stopLoss |-> stopLoss,
                   takeProfit |-> takeProfit,
                   riskRewardRatio |-> riskRewardRatio,
                   recommendation |-> recommendationFor(riskRewardRatio)])
    ELSE Returned(Null)

QuickSetupLevels(entryPrice, stopLoss, takeProfit) ==
    QuickSetupStored(stopLoss, takeProfit,
                     riskRewardRatioOf(entryPrice, params.isLong, stopLoss, takeProfit))

InitQuickSetup ==
    /\ params \in [asset : {"AVAX"}, collateral : {R(1000, 1)}, leverage : {R(5, 1)},
                   isLong : BOOLEAN, entryPrice : EntryPrices]
    /\ call = [fn |-> "none", args |-> <<>>]
    /\ result = NoResult
    /\ NoComponent
    /\ NoTimers

\* A click on the quick-setup button 1:ratio and the effect it triggers.
QuickSetup(ratio) ==
    /\ call' = [fn |-> "setCommonRatio", args |-> <<ratio>>]
    /\ \E entryPrice \in {FFromFraction(params.entryPrice)} :
          \E stopLoss \in {commonRatioStopLoss(entryPrice, params.isLong)},
             takeProfit \in {commonRatioTakeProfit(entryPrice, params.isLong,
                                                   FFromFraction(ratio))} :
              result' = QuickSetupLevels(entryPrice, stopLoss, takeProfit)
    /\ UNCHANGED <<params, uiVars, timerVars>>

NextQuickSetup == \E ratio \in CommonRatios : QuickSetup(ratio)

SpecQuickSetup == InitQuickSetup /\ [][NextQuickSetup]_vars

-----------------------------------------------------------------------------
(* Properties *)

Has(seq, e) == \E i \in 1..Len(seq) : seq[i] = e

\* A position as the data model describes it: a supported asset, collateral and
\* entry price above zero, leverage within [1, 50].
ValidPosition(p) ==
    /\ \E i \in 1..Len(SUPPORTED_ASSETS) : SUPPORTED_ASSETS[i].symbol = p.asset
    /\ Gt(p.collateral, Zero)
    /\ Ge(p.leverage, R(1, 1))
    /\ Le(p.leverage, R(50, 1))
    /\ Gt(p.entryPrice, Zero)

Called(fn) == call.fn = fn /\ result.tag # "none"

\* C1: validatePosition returns (never raises) and reports every violation:
\* the collateral message exactly when collateral <= 0, the leverage-range
\* message exactly when leverage < 1 or leverage > 50, the entry-price message
\* exactly when entryPrice <= 0, each whatever the others do, and isValid is
\* true exactly when the errors list is empty.
C1_ValidateAccumulates ==
    Called("validatePosition") =>
        /\ result.tag = "returned"
        /\ LET v == result.value
           IN  /\ Has(v.errors, Message("Collateral must be greater than 0"))
                    <=> Le(params.collateral, Zero)
               /\ Has(v.errors, Message("Leverage must be between 1x and 50x"))
                    <=> (Lt(params.leverage, R(1, 1)) \/ Gt(params.leverage, R(50, 1)))
               /\ Has(v.errors, Message("Entry price must be greater than 0"))
                    <=> Le(params.entryPrice, Zero)
               /\ v.isValid <=> (v.errors = <<>>)

C1_Witness ==
    /\ Called("validatePosition")
    /\ params.collateral = Zero
    /\ params.leverage = Zero
    /\ Gt(params.entryPrice, Zero)
    /\ Has(result.value.errors, Message("Collateral must be greater than 0"))
    /\ Has(result.value.errors, Message("Leverage must be between 1x and 50x"))
    /\ ~result.value.isValid

AssetRelated(e) == e.asset # "" \/ e.text = "Asset is required"

\* C2: validatePosition rejects an asset symbol that is not in SUPPORTED_ASSETS:
\* for a non-empty unknown symbol with collateral, leverage and entry price in
\* range, isValid is false and the errors hold an asset-related message.
C2_UnknownAssetRejected ==
    ( /\ Called("validatePosition")
      /\ params.asset # ""
      /\ \A i \in 1..Len(SUPPORTED_ASSETS) : SUPPORTED_ASSETS[i].symbol # params.asset
      /\ Gt(params.collateral, Zero)
      /\ Ge(params.leverage, R(1, 1))
      /\ Le(params.leverage, R(50, 1))
      /\ Gt(params.entryPrice, Zero) )
    => /\ result.tag = "returned"
       /\ ~result.value.isValid
       /\ \E i \in 1..Len(result.value.errors) : AssetRelated(result.value.errors[i])

\* C3: a position that validatePosition accepts never makes
\* calculateLiquidationPrice raise: the call returns a LiquidationResult.
C3_NoRaiseAfterValidation ==
    (Called("calculateLiquidationPrice") /\ validatePosition(params).isValid)
        => result.tag = "returned"

\* C4: for a valid position the liquidation price is below the entry price for
\* a long and above it for a short.
C4_LiquidationSide ==
    (Called("calculateLiquidationPrice") /\ ValidPosition(params)) =>
        /\ result.tag = "returned"
        /\ params.isLong => Lt(result.value.liquidationPrice, params.entryPrice)
        /\ ~params.isLong => Gt(result.value.liquidationPrice, params.entryPrice)

C4_Witness ==
    /\ Called("calculateLiquidationPrice")
    /\ ValidPosition(params)
    /\ ~params.isLong
    /\ params.leverage = R(50, 1)
    /\ result.tag = "returned"
    /\ Gt(result.value.liquidationPrice, params.entryPrice)

ScenarioPosition ==
    [asset |-> "AVAX", collateral |-> R(1000, 1), leverage |-> R(5, 1),
     isLong |-> TRUE, entryPrice |-> R(2550, 100)]

\* C5: for a valid position liquidationPrice = entryPrice*(1 - 0.85/leverage)
\* for a long and entryPrice*(1 + 0.85/leverage) for a short,
\* distanceToLiquidation = |entryPrice - liquidationPrice|, distancePercentage =
\* distanceToLiquidation/entryPrice*100 and marginRatio = 100/leverage; AVAX,
\* collateral 1000, leverage 5, long, entry 25.50 gives 21.165, 4.335 and 17.
C5_LiquidationFormula ==
    (Called("calculateLiquidationPrice") /\ ValidPosition(params)) =>
        /\ result.tag = "returned"
        /\ LET v == result.value
               step == Div(R(85, 100), params.leverage)
               expected == IF params.isLong
                           THEN Mul(params.entryPrice, Sub(One, step))
                           ELSE Mul(params.entryPrice, Add(One, step))
           IN  /\ v.liquidationPrice = expected
               /\ v.distanceToLiquidation = Abs(Sub(params.entryPrice, v.liquidationPrice))
               /\ v.distancePercentage
                    = Mul(Div(v.distanceToLiquidation, params.entryPrice), Hundred)
               /\ v.marginRatio = Div(Hundred, params.leverage)
               /\ params = ScenarioPosition =>
                    /\ v.liquidationPrice = R(21165, 1000)
                    /\ v.distanceToLiquidation = R(4335, 1000)
                    /\ v.distancePercentage = R(17, 1)

C5_Witness ==
    /\ Called("calculateLiquidationPrice")
    /\ params = ScenarioPosition
    /\ result.tag = "returned"
    /\ result.value.liquidationPrice = R(21165, 1000)

\* C6: with the entry price fixed, distancePercentage strictly decreases as the
\* leverage increases over [1, 50], for long and for short.
C6_DistanceDecreasesWithLeverage ==
    (Called("calculateLiquidationPrice") /\ ValidPosition(params)) =>
        /\ result.tag = "returned"
        /\ \A l2 \in Leverages :
              LET other == [params EXCEPT !.leverage = l2]
                  r2 == calculateLiquidationPrice(other)
              IN  ValidPosition(other) =>
                    /\ r2.tag = "returned"
                    /\ Lt(params.leverage, l2) =>
                          Gt(result.value.distancePercentage, r2.value.distancePercentage)
                    /\ Lt(l2, params.leverage) =>
                          Lt(result.value.distancePercentage, r2.value.distancePercentage)

C6_Witness ==
    /\ Called("calculateLiquidationPrice")
    /\ ValidPosition(params)
    /\ params.leverage = R(5, 1)
    /\ result.tag = "returned"
    /\ \E l2 \in Leverages :
          /\ ValidPosition([params EXCEPT !.leverage = l2])
          /\ Lt(params.leverage, l2)
          /\ Gt(result.value.distancePercentage,
                calculateLiquidationPrice([params EXCEPT !.leverage = l2]).value.distancePercentage)

\* C7: for a valid position calculatePnL at the entry price gives pnl = 0,
\* pnlPercentage = 0 and roi = 0, and for fixed entry and current price doubling
\* the leverage (collateral unchanged) exactly doubles pnlPercentage.
C7_ZeroAtEntryLinearInLeverage ==
    (Called("calculatePnL") /\ ValidPosition(params)) =>
        LET v == result.value
            currentPrice == call.args[1]
            doubled == [params EXCEPT !.leverage = Mul(R(2, 1), params.leverage)]
        IN  /\ currentPrice = params.entryPrice =>
                  (v.pnl = Zero /\ v.pnlPercentage = Zero /\ v.roi = Zero)
            /\ calculatePnL(doubled, currentPrice).pnlPercentage
                  = Mul(R(2, 1), v.pnlPercentage)

C7_Witness ==
    /\ Called("calculatePnL")
    /\ ValidPosition(params)
    /\ call.args[1] # params.entryPrice
    /\ result.value.pnlPercentage # Zero
    /\ calculatePnL([params EXCEPT !.leverage = Mul(R(2, 1), params.leverage)],
                    call.args[1]).pnlPercentage
          = Mul(R(2, 1), result.value.pnlPercentage)

\* C8: for a valid position and any current price a long has
\* pnl = collateral*leverage*(currentPrice-entryPrice)/entryPrice and
\* pnlPercentage = (currentPrice-entryPrice)/entryPrice*100*leverage, and the
\* short with the same other parameters has exactly the negated pnl,
\* pnlPercentage and roi; collateral 1000, leverage 5, long, entry 25.50 at
\* current price 28.05 gives pnl 500, pnlPercentage 50 and roi 50.
C8_PnLFormula ==
    (Called("calculatePnL") /\ ValidPosition(params)) =>
        LET v == result.value
            currentPrice == call.args[1]
            change == Div(Sub(currentPrice, params.entryPrice), params.entryPrice)
            longPnl == Mul(Mul(params.collateral, params.leverage), change)
            longPct == Mul(Mul(change, Hundred), params.leverage)
            long == calculatePnL([params EXCEPT !.isLong = TRUE], currentPrice)
        IN  /\ params.isLong => (v.pnl = longPnl /\ v.pnlPercentage = longPct)
            /\ ~params.isLong =>
                  /\ v.pnl = Neg(long.pnl)
                  /\ v.pnlPercentage = Neg(long.pnlPercentage)
                  /\ v.roi = Neg(long.roi)
                  /\ long.pnl = longPnl
            /\ (params = ScenarioPosition /\ currentPrice = R(2805, 100)) =>
                  /\ v.pnl = R(500, 1)
                  /\ v.pnlPercentage = R(50, 1)
                  /\ v.roi = R(50, 1)

C8_Witness ==
    /\ Called("calculatePnL")
    /\ ValidPosition(params)
    /\ ~params.isLong
    /\ call.args[1] = R(2805, 100)
    /\ params.entryPrice = R(2550, 100)
    /\ params.collateral = R(1000, 1)
    /\ params.leverage = R(5, 1)
    /\ result.value.pnl = R(-500, 1)
    /\ result.value.roi = R(-50, 1)

\* C9: for a valid position the pnl at the returned breakevenPrice equals the
\* 24-hour total fees, and breakevenPrice is above the entry price for a long
\* and below it for a short.
C9_BreakevenOffsetsFees ==
    (Called("calculatePnL") /\ ValidPosition(params)) =>
        LET breakevenPrice == result.value.breakevenPrice
        IN  /\ calculatePnL(params, breakevenPrice).pnl
                  = calculateTotalFees(params, R(24, 1)).totalFees
            /\ params.isLong => Gt(breakevenPrice, params.entryPrice)
            /\ ~params.isLong => Lt(breakevenPrice, params.entryPrice)

C9_Witness ==
    /\ Called("calculatePnL")
    /\ ValidPosition(params)
    /\ ~params.isLong
    /\ Lt(result.value.breakevenPrice, params.entryPrice)
    /\ Gt(calculateTotalFees(params, R(24, 1)).totalFees, Zero)
    /\ calculatePnL(params, result.value.breakevenPrice).pnl
          = calculateTotalFees(params, R(24, 1)).totalFees

C11_FeesMonotoneInHours ==
    (Called("calculateTotalFees") /\ ValidPosition(params) /\ Ge(call.args[1], Zero)) =>
        \A h2 \in Hours :
            LET r2 == calculateTotalFees(params, h2)
            IN  Ge(h2, Zero) =>
                  /\ Le(call.args[1], h2) => Le(result.value.totalFees, r2.totalFees)
                  /\ Le(h2, call.args[1]) => Le(r2.totalFees, result.value.totalFees)
                  /\ r2.positionFee = result.value.positionFee

C11_Witness ==
    /\ Called("calculateTotalFees")
    /\ ValidPosition(params)
    /\ call.args[1] = R(1, 1)
    /\ Lt(result.value.totalFees, calculateTotalFees(params, R(24, 1)).totalFees)
    /\ result.value.positionFee = calculateTotalFees(params, R(24, 1)).positionFee
    /\ Gt(result.value.positionFee, Zero)

\* C12: for every PositionParams and hours >= 0, positionFee =
\* collateral*leverage*0.0001, borrowingFee = fundingFee =
\* collateral*leverage*0.0001*hours and totalFees is the sum of the three;
\* position size 5000 over 24 hours gives 0.5, 12, 12 and 24.5.
C12_FeeFormula ==
    (Called("calculateTotalFees") /\ Ge(call.args[1], Zero)) =>
        LET v == result.value
            hours == call.args[1]
            size == Mul(params.collateral, params.leverage)
        IN  /\ v.positionFee = Mul(size, R(1, 10000))
            /\ v.borrowingFee = Mul(Mul(size, R(1, 10000)), hours)
            /\ v.fundingFee = Mul(Mul(size, R(1, 10000)), hours)
            /\ v.totalFees = Add(Add(v.positionFee, v.borrowingFee), v.fundingFee)
            /\ (size = R(5000, 1) /\ hours = R(24, 1)) =>
                  /\ v.positionFee = R(5, 10)
                  /\ v.borrowingFee = R(12, 1)
                  /\ v.fundingFee = R(12, 1)
                  /\ v.totalFees = R(245, 10)

C12_Witness ==
    /\ Called("calculateTotalFees")
    /\ Mul(params.collateral, params.leverage) = R(5000, 1)
    /\ call.args[1] = R(24, 1)
    /\ result.value.totalFees = R(245, 10)

ClampTo(x, lo, hi) == IF Lt(x, lo) THEN lo ELSE IF Gt(x, hi) THEN hi ELSE x

\* C13: for volatility > 0, calculateSafeLeverage returns
\* clamp(round(clamp(10/volatility, 1, 50) * m), 1, 50) with m = 0.5, 1.0, 1.5
\* for Conservative, Moderate, Aggressive (round: nearest integer, halves up):
\* an integer in [1, 50] that does not depend on the asset argument;
\* volatility 0.85 with Moderate gives 12.
C13_SafeLeverageFormula ==
    (Called("calculateSafeLeverage") /\ Gt(call.args[2], Zero)) =>
        LET v == result.value
            volatility == call.args[2]
            tolerance == call.args[3]
            m == CASE tolerance = "Conservative" -> R(1, 2)
                   [] tolerance = "Moderate" -> R(1, 1)
                   [] tolerance = "Aggressive" -> R(3, 2)
            x == Mul(ClampTo(Div(R(10, 1), volatility), R(1, 1), R(50, 1)), m)
        IN  /\ v.d = 1
            /\ Ge(v, R(1, 1))
            /\ Le(v, R(50, 1))
            /\ \E y \in 0..76 :
                  /\ Le(Sub(R(y, 1), R(1, 2)), x)
                  /\ Lt(x, Add(R(y, 1), R(1, 2)))
                  /\ v = ClampTo(R(y, 1), R(1, 1), R(50, 1))
            /\ \A asset \in Assets : calculateSafeLeverage(asset, volatility, tolerance) = v
            /\ (volatility = R(85, 100) /\ tolerance = "Moderate") => v = R(12, 1)

\* 10/0.8 = 12.5 is a half: it rounds up to 13.
C13_Witness ==
    /\ Called("calculateSafeLeverage")
    /\ call.args[2] = R(8, 10)
    /\ call.args[3] = "Moderate"
    /\ result.value = R(13, 1)

\* C14: with mirrored levels the direction does not matter: a long with
\* stopLoss = entryPrice - dL and takeProfit = entryPrice + dP (dL, dP > 0) has
\* the same riskRewardRatio, maxLoss and maxProfit as the short with
\* stopLoss = entryPrice + dL and takeProfit = entryPrice - dP.
C14_RiskRewardMirror ==
    Called("calculateRiskReward") =>
        LET e == params.entryPrice
            dL == IF params.isLong THEN Sub(e, call.args[1]) ELSE Sub(call.args[1], e)
            dP == IF params.isLong THEN Sub(call.args[2], e) ELSE Sub(e, call.args[2])
            flipped == [params EXCEPT !.isLong = ~params.isLong]
            mirror == IF params.isLong
                      THEN calculateRiskReward(flipped, Add(e, dL), Sub(e, dP))
                      ELSE calculateRiskReward(flipped, Sub(e, dL), Add(e, dP))
        IN  (Gt(dL, Zero) /\ Gt(dP, Zero)) =>
              /\ mirror.riskRewardRatio = result.value.riskRewardRatio
              /\ mirror.maxLoss = result.value.maxLoss
              /\ mirror.maxProfit = result.value.maxProfit

C14_Witness ==
    /\ Called("calculateRiskReward")
    /\ ~params.isLong
    /\ params.entryPrice = R(2550, 100)
    /\ call.args[1] = R(3060, 100)
    /\ call.args[2] = R(2295, 100)
    /\ result.value.riskRewardRatio = R(1, 2)
    /\ calculateRiskReward([params EXCEPT !.isLong = TRUE],
                           R(2040, 100), R(2805, 100)).riskRewardRatio = R(1, 2)

\* C15 as stated: with maxLoss > 0, riskRewardRatio = maxProfit/maxLoss and the
\* probabilityOfProfit field is 1/(1 + riskRewardRatio), a value in (0, 1].
C15_ProbabilityIsFraction ==
    (Called("calculateRiskReward") /\ Gt(result.value.maxLoss, Zero)) =>
        LET v == result.value
        IN  /\ v.riskRewardRatio = Div(v.maxProfit, v.maxLoss)
            /\ v.probabilityOfProfit = Div(One, Add(One, v.riskRewardRatio))
            /\ Gt(v.probabilityOfProfit, Zero)
            /\ Le(v.probabilityOfProfit, One)

\* C15 amended: with maxLoss > 0, riskRewardRatio = maxProfit/maxLoss and the
\* probabilityOfProfit field is the percentage 100/(1 + riskRewardRatio), a
\* value in (0, 100].
C15_ProbabilityIsPercentage ==
    (Called("calculateRiskReward") /\ Gt(result.value.maxLoss, Zero)) =>
        LET v == result.value
        IN  /\ v.riskRewardRatio = Div(v.maxProfit, v.maxLoss)
            /\ v.probabilityOfProfit = Div(Hundred, Add(One, v.riskRewardRatio))
            /\ Gt(v.probabilityOfProfit, Zero)
            /\ Le(v.probabilityOfProfit, Hundred)

C15_Witness ==
    /\ Called("calculateRiskReward")
    /\ result.value.maxLoss = R(255, 100)
    /\ result.value.riskRewardRatio = R(2, 1)
    /\ result.value.probabilityOfProfit = R(100, 3)

ResultOf(fn, p, args) ==
    CASE fn = "validatePosition" -> Returned(validatePosition(p))
      [] fn = "calculateLiquidationPrice" -> calculateLiquidationPrice(p)
      [] fn = "calculatePnL" -> Returned(calculatePnL(p, args[1]))
      [] fn = "calculateTotalFees" -> Returned(calculateTotalFees(p, args[1]))
      [] fn = "calculateRiskReward" -> Returned(calculateRiskReward(p, args[1], args[2]))
      [] fn = "calculateSafeLeverage" ->
            Returned(calculateSafeLeverage(args[1], args[2], args[3]))

C20_ExpectedValueIsZero ==
    (Called("calculateRiskReward") /\ Gt(result.value.maxLoss, Zero)) =>
        result.value.expectedValue = Zero

C20_Witness ==
    /\ Called("calculateRiskReward")
    /\ Gt(result.value.maxLoss, Zero)
    /\ Gt(result.value.maxProfit, result.value.maxLoss)
    /\ result.value.expectedValue = Zero

----------------------------------------------------------------------------
(* The components' effects (SpecUI) *)

Calculators ==
    {"calculateLiquidationPrice", "calculatePnL", "calculateTotalFees",
     "calculateSafeLeverage", "calculateRiskReward"}

\* The calculator each component's effect calls.
calculatorOf(c) ==
    CASE c = "liquidation" -> "calculateLiquidationPrice"
      [] c = "pnl" -> "calculatePnL"
      [] c = "fees" -> "calculateTotalFees"
      [] c = "leverage" -> "calculateSafeLeverage"
      [] c = "risk-reward" -> "calculateRiskReward"

\* The i-th call of the run comes after a validatePosition call of the same
\* run, on the same parameters, that returned isValid = true.
ValidatedBefore(i) ==
    \E j \in 1..(i - 1) :
        /\ run[j].fn = "validatePosition"
        /\ run[j].params = run[i].params
        /\ run[j].ok

\* C16: in the recalculation effect of each of the five components, a
\* calculator is invoked in a run only after validatePosition, called in that
\* run on the PositionParams built from the same state, returned isValid = true;
\* and the calculator invoked is the component's own.
C16_CalculatorsAfterValidation ==
    \A i \in 1..Len(run) :
        /\ run[i].params = paramsOf(state)
        /\ run[i].fn \in Calculators =>
              /\ run[i].fn = calculatorOf(component)
              /\ ValidatedBefore(i)

\* A run of the risk/reward effect on an invalid state (no collateral) with
\* positive levels: validatePosition was called and no calculator was.
C16_Witness ==
    /\ component = "risk-reward"
    /\ Eq(state.collateral, Zero)
    /\ Gt(state.entryPrice, Zero)
    /\ Gt(stopLossState, Zero)
    /\ Gt(takeProfitState, Zero)
    /\ Len(run) = 1
    /\ run[1].fn = "validatePosition"
    /\ ~run[1].ok

\* C17: in every reachable state of the RiskRewardRatio component,
\* calculateRiskReward is never invoked with a stop-loss equal to the entry
\* price, and no infinite or undefined riskRewardRatio is stored in the
\* component's calculation.
C17_NoZeroDistanceStop ==
    component = "risk-reward" =>
        /\ \A i \in 1..Len(run) :
              run[i].fn = "calculateRiskReward" =>
                  ~Eq(run[i].nums[1], run[i].params.entryPrice)
        /\ calculationState.tag = "stored" =>
              calculationState.value.riskRewardRatio.d # 0

PercentOfEntry(percent) == Mul(state.entryPrice, Add(One, Div(percent, Hundred)))

HasScenarioPrice(price) ==
    \E i \in 1..Len(calculationState.value.scenarios) :
        Eq(calculationState.value.scenarios[i].price, price)

\* C18: for each magnitude x in {5, 10, 20, 50} and either direction, the
\* scenarios the PnLSimulator computes include the price x% above and the price
\* x% below the entry price, so that a profit and a loss are among them.
C18_ScenariosOfBothSigns ==
    (component = "pnl" /\ calculationState.tag = "stored") =>
        /\ \A k \in 1..Len(UI_CONSTANTS.priceChangeScenarios) :
              /\ HasScenarioPrice(PercentOfEntry(UI_CONSTANTS.priceChangeScenarios[k]))
              /\ HasScenarioPrice(PercentOfEntry(Neg(UI_CONSTANTS.priceChangeScenarios[k])))
        /\ \E i \in 1..Len(calculationState.value.scenarios) :
              Gt(calculationState.value.scenarios[i].pnl, Zero)
        /\ \E i \in 1..Len(calculationState.value.scenarios) :
              Lt(calculationState.value.scenarios[i].pnl, Zero)

----------------------------------------------------------------------------
(* Relations between the calculators *)

\* C21: for every valid position, calculatePnL evaluated at the position's own
\* liquidation price gives roi = -85 and pnl = -0.85 * collateral, long or
\* short, whatever the leverage in [1, 50]; the loss does not exceed the
\* collateral.
C21_LossAtLiquidation ==
    (Called("calculateLiquidationPrice") /\ ValidPosition(params)) =>
        /\ result.tag = "returned"
        /\ LET atLiquidation == calculatePnL(params, result.value.liquidationPrice)
           IN  /\ Eq(atLiquidation.roi, R(-85, 1))
               /\ Eq(atLiquidation.pnl, Mul(R(-85, 100), params.collateral))
               /\ Le(Neg(atLiquidation.pnl), params.collateral)

C21_Witness ==
    /\ Called("calculateLiquidationPrice")
    /\ ValidPosition(params)
    /\ ~params.isLong
    /\ params.leverage = R(5, 2)
    /\ params.collateral = R(500, 1)
    /\ result.tag = "returned"
    /\ Gt(result.value.liquidationPrice, params.entryPrice)
    /\ calculatePnL(params, result.value.liquidationPrice).pnl = R(-425, 1)

\* C22: for collateral > 0 and entryPrice > 0 and every current price, the roi
\* and pnlPercentage fields calculatePnL returns are equal: both are the
\* leverage times the price-change percentage, negated for a short.
C22_RoiEqualsPnlPercentage ==
    ( /\ Called("calculatePnL")
      /\ Gt(params.collateral, Zero)
      /\ Gt(params.entryPrice, Zero) ) =>
        /\ result.tag = "returned"
        /\ Eq(result.value.roi, result.value.pnlPercentage)
        /\ LET change == priceChangePercentageOf(params.entryPrice, call.args[1])
           IN  Eq(result.value.roi,
                  Mul(params.leverage, IF params.isLong THEN change ELSE Neg(change)))

C22_Witness ==
    /\ Called("calculatePnL")
    /\ params.collateral = R(1000, 1)
    /\ params.leverage = R(5, 1)
    /\ ~params.isLong
    /\ params.entryPrice = R(255, 10)
    /\ call.args[1] = R(2805, 100)
    /\ result.value.roi = R(-50, 1)
    /\ result.value.pnlPercentage = R(-50, 1)

----------------------------------------------------------------------------
(* What the components store and show (SpecUI) *)

\* What an effect run stores: a result exactly when it stores no errors.
ResultIffNoErrors(outcome) ==
    (outcome.calculation.tag = "stored") <=> (outcome.errors = <<>>)

\* C23: in each of the five components, after every run of the recalculation
\* effect, the stored result is non-null exactly when the stored errors list is
\* empty; so it is too for a state whose asset symbol is unknown, where
\* validation passes and calculateLiquidationPrice raises: the result is null
\* and the errors hold the raised message.
C23_ResultIffNoErrors ==
    /\ (calculationState.tag = "stored") <=> (errorsState = <<>>)
    /\ \A asset \in Assets :
          ResultIffNoErrors(effectOf(component, [state EXCEPT !.asset = asset],
                                     stopLossState, takeProfitState,
                                     riskToleranceState))
    /\ (component = "liquidation" /\ validatePosition(paramsOf(state)).isValid) =>
          LET raised == LiquidationEffect([state EXCEPT !.asset = "DOGE"])
          IN  /\ raised.calculation = Null
              /\ raised.errors =
                    <<MessageFor("Asset ${asset} not supported", "DOGE", Zero)>>

\* The liquidation calculator after a run on a state without collateral and
\* without entry price: no result, two errors.
C23_Witness ==
    /\ component = "liquidation"
    /\ state.collateral = Zero
    /\ state.entryPrice = Zero
    /\ calculationState = Null
    /\ Len(errorsState) = 2

\* RISK_LEVELS[level.toUpperCase()].maxLeverage, the 'Max Nx' of a button.
maxLeverageShownFor(level) ==
    CASE level = "Conservative" -> RISK_LEVELS.CONSERVATIVE.maxLeverage
      [] level = "Moderate" -> RISK_LEVELS.MODERATE.maxLeverage
      [] level = "Aggressive" -> RISK_LEVELS.AGGRESSIVE.maxLeverage

\* C24: the leverage recommended for a risk tolerance never exceeds the
\* maximum leverage shown for that tolerance (3, 10 and 50).
C24_RecommendationWithinShownMaximum ==
    (component = "leverage" /\ calculationState.tag = "stored") =>
        Le(calculationState.value.recommendedLeverage,
           maxLeverageShownFor(riskToleranceState))

\* C25: from a valid state with a recommendation shown, 'Apply Recommended
\* Leverage' sets the leverage to recommendedLeverage and changes no other
\* field; validatePosition still returns isValid = true, the recomputed
\* recommendedLeverage is the same, and neither the High Risk Warning
\* (leverage > 1.5 * recommended) nor the Conservative Position notice
\* (leverage < 0.5 * recommended) is shown.
C25_ApplyIsFixpoint ==
    [][ApplyRecommendedLeverage =>
          /\ state' = [state EXCEPT !.leverage = calculationState.value.recommendedLeverage]
          /\ validatePosition(paramsOf(state')).isValid
          /\ calculationState'.tag = "stored"
          /\ calculationState'.value.recommendedLeverage =
                calculationState.value.recommendedLeverage
          /\ ~Gt(state'.leverage,
                 Mul(calculationState'.value.recommendedLeverage, R(15, 10)))
          /\ ~Lt(state'.leverage,
                 Mul(calculationState'.value.recommendedLeverage, R(5, 10)))
          /\ riskToleranceState' = riskToleranceState
          /\ component' = component]_vars

\* The recommendation of 12x for AVAX at moderate tolerance has been applied
\* (no slider position of the model gives 12).
C25_Witness ==
    /\ component = "leverage"
    /\ state.asset = "AVAX"
    /\ riskToleranceState = "Moderate"
    /\ state.leverage = R(12, 1)
    /\ state.leverage \notin SliderLeverages
    /\ calculationState.tag = "stored"
    /\ calculationState.value.recommendedLeverage = state.leverage

\* The 'Cost Impact Analysis' card of FundingFeesEstimator: the amounts shown
\* under 'Weekly Cost' and 'Monthly Cost', before formatCurrency.
weeklyCostOf(calculation) == Mul(calculation.totalFees24h, R(7, 1))

monthlyCostOf(calculation) == Mul(calculation.totalFees24h, R(30, 1))

\* C27: for every valid position the 'Weekly Cost' shown by the fee estimator
\* equals the total fees it computes for the '7 Days' timeframe (168 hours)
\* and the 'Monthly Cost' equals those of the '30 Days' timeframe (720
\* hours), so that the one-time position fee is counted once.
C27_LongerHorizonCostsCountPositionFeeOnce ==
    (component = "fees" /\ calculationState.tag = "stored") =>
        /\ calculationState.value.timeframes[3].hours = R(168, 1)
        /\ calculationState.value.timeframes[4].hours = R(720, 1)
        /\ weeklyCostOf(calculationState.value)
               = calculationState.value.timeframes[3].totalFees
        /\ monthlyCostOf(calculationState.value)
               = calculationState.value.timeframes[4].totalFees

-----------------------------------------------------------------------------
(* The direction in calculateRiskReward (SpecLibrary) *)

\* The parameters of the opposite direction.
Flipped(p) == [p EXCEPT !.isLong = ~p.isLong]

\* C28: calculateRiskReward does not depend on the direction: for every entry
\* price, stop-loss and take-profit the result for isLong = true is identical
\* to the result for isLong = false, so a stop on the wrong side of the entry
\* is neither rejected nor told apart from one on the right side.
C28_RiskRewardIgnoresDirection ==
    /\ Called("calculateRiskReward") =>
          /\ result.tag = "returned"
          /\ result.value = calculateRiskReward(Flipped(params), call.args[1], call.args[2])
    /\ \A stopLoss \in Levels, takeProfit \in Levels :
          calculateRiskReward(params, stopLoss, takeProfit)
              = calculateRiskReward(Flipped(params), stopLoss, takeProfit)

\* A long position with its stop above and its target below the entry.
C28_Witness ==
    /\ Called("calculateRiskReward")
    /\ params.isLong
    /\ params.entryPrice = R(2550, 100)
    /\ call.args[1] = R(2805, 100)
    /\ call.args[2] = R(2040, 100)
    /\ result.value.maxLoss = R(255, 100)
    /\ result.value.maxProfit = R(510, 100)
    /\ result.value.riskRewardRatio = R(2, 1)

-----------------------------------------------------------------------------
(* debounce (SpecDebounceFair) and throttle (SpecThrottleFair) *)

\* The positions in the trace of the calls of the function returned for fn,
\* and of the invocations of its func.
CallsOf(fn) == {i \in DOMAIN trace : trace[i].kind = "call" /\ trace[i].fn = fn}

InvocationsOf(fn) == {i \in DOMAIN trace : trace[i].kind = "invoke" /\ trace[i].fn = fn}

\* The call at j is the most recent call of fn before position i.
MostRecentCall(fn, j, i) ==
    /\ j \in CallsOf(fn)
    /\ j < i
    /\ \A k \in CallsOf(fn) : ~(j < k /\ k < i)

\* Every invocation by the debounced function comes wait ms or more after
\* the most recent call, carries that call's arguments and is the only
\* invocation since that call.
InvokedAfterQuietWait ==
    \A i \in InvocationsOf("debounced") :
        \E j \in DOMAIN trace :
            /\ MostRecentCall("debounced", j, i)
            /\ trace[i].at >= trace[j].at + wait
            /\ trace[i].args = trace[j].args
            /\ \A k \in InvocationsOf("debounced") : ~(j < k /\ k < i)

\* No invocation falls between two calls less than wait ms apart.
BurstNotInterrupted ==
    \A j \in CallsOf("debounced"), k \in CallsOf("debounced") :
        (j < k /\ trace[k].at - trace[j].at < wait) =>
            \A i \in InvocationsOf("debounced") : ~(j < i /\ i < k)

DebouncePending == \E t \in timers : t.callback = "func"

\* The last call of the debounced function has been followed by an invocation.
DebounceSettled ==
    /\ ~DebouncePending
    /\ CallsOf("debounced") # {} =>
          \E i \in InvocationsOf("debounced") :
              \A j \in CallsOf("debounced") : j < i

\* C29: debounce(func, wait) coalesces bursts: func is invoked only when wait
\* ms have passed since the most recent call with no call in between, with
\* that call's arguments; calls less than wait ms apart cause one invocation
\* only, and once the calls stop that invocation eventually happens.
C29_DebounceCoalesces ==
    /\ [](InvokedAfterQuietWait /\ BurstNotInterrupted)
    /\ (DebouncePending ~> DebounceSettled)

\* A burst of three calls, each less than wait ms after the one before, and
\* its one invocation.
C29_Witness ==
    /\ wait = 2
    /\ Len(trace) = 4
    /\ CallsOf("debounced") = {1, 2, 3}
    /\ trace[1].at = 0 /\ trace[2].at = 1 /\ trace[3].at = 2
    /\ trace[1].args = "a" /\ trace[2].args = "a" /\ trace[3].args = "b"
    /\ trace[4] = [kind |-> "invoke", fn |-> "debounced", at |-> 4, args |-> "b"]
    /\ ~DebouncePending

LastInvocation(fn, i) ==
    /\ i \in InvocationsOf(fn)
    /\ \A k \in InvocationsOf(fn) : k <= i

\* Every invocation by the throttled function happens within the call that
\* causes it, with that call's arguments.
InvokedWithinCall ==
    \A i \in InvocationsOf("throttled") :
        /\ i > 1
        /\ trace[i - 1] = [trace[i] EXCEPT !.kind = "call"]

InvocationsApart ==
    \A i \in InvocationsOf("throttled"), j \in InvocationsOf("throttled") :
        i < j => trace[j].at - trace[i].at >= limit

\* A call less than limit ms after an invocation invokes nothing.
CallsWithinLimitDiscarded ==
    \A i \in InvocationsOf("throttled"), k \in CallsOf("throttled") :
        (i < k /\ trace[k].at - trace[i].at < limit) =>
            (k + 1) \notin InvocationsOf("throttled")

\* While the flag is set, the timer that clears it is due limit ms after the
\* last invocation; the flag is not cleared before that.
FlagClearedAtLimit ==
    \A i \in DOMAIN trace :
        LastInvocation("throttled", i) =>
            IF inThrottle
            THEN {t \in timers : t.callback = "inThrottle = false"}
                     = {[callback |-> "inThrottle = false",
                         due |-> trace[i].at + limit, args |-> ""]}
            ELSE now >= trace[i].at + limit

\* A step that adds a call of the throttled function to the trace.
ThrottledCallStep ==
    /\ Len(trace') > Len(trace)
    /\ trace'[Len(trace) + 1].kind = "call"
    /\ trace'[Len(trace) + 1].fn = "throttled"

-----------------------------------------------------------------------------
(* The quick-setup buttons (SpecQuickSetup) *)

\* C26: the quick-setup button 1:r produces exactly the ratio r: for every
\* entry price above 0 and either direction the stop-loss lies on the losing
\* side and the take-profit on the winning side of the entry, both are above
\* 0, and calculateRiskReward returns riskRewardRatio = r.
C26_QuickSetupGivesRatio ==
    Called("setCommonRatio") =>
        /\ result.value # Null
        /\ FGt(result.value.stopLoss, FZero)
        /\ FGt(result.value.takeProfit, FZero)
        /\ IF params.isLong
           THEN /\ FLt(result.value.stopLoss, FFromFraction(params.entryPrice))
                /\ FGt(result.value.takeProfit, FFromFraction(params.entryPrice))
           ELSE /\ FGt(result.value.stopLoss, FFromFraction(params.entryPrice))
                /\ FLt(result.value.takeProfit, FFromFraction(params.entryPrice))
        /\ result.value.riskRewardRatio = FFromFraction(call.args[1])

====
